---- MODULE Spec2Model ----
(***************************************************************************)
(* Semantic video search: the retrieval-and-aggregation pipeline of        *)
(* src/inference.py (search_similar_segments, group_results_by_video,      *)
(* main) and of the dashboard in src/streamlit_app.py (main).              *)
(*                                                                         *)
(* Encoding of values.                                                     *)
(*   - A nullable column holds None (the empty tuple) or Some(v) = <<v>>.  *)
(*   - A similarity is kept in tenths: Some(7) is the float 0.7, Some(0)   *)
(*     is 0.0.  Only comparisons and truthiness are applied to it, and     *)
(*     both are preserved by the scaling.                                  *)
(*   - A Python dict that is iterated in insertion order (video_groups)    *)
(*     is a sequence of its items.                                         *)
(***************************************************************************)
EXTENDS Integers, Sequences, FiniteSets, Bags, TLC

\* ---------------------------------------------------------------- bounds
MaxLen == 3

MaxRows == 2

MaxQueryLen == 1

MaxArgs == 1

MaxSeconds == 3700

MaxNegative == 5

Window == 60

\* ------------------------------------------------------- value universe
None == <<>>

Some(v) == <<v>>

VideoIds == {"v1", "v2"}

Titles == {"A", "B"}

\* similarities in tenths; None is SQL NULL
SimValues == {0, 4, 7, 9}

Sims == {None} \cup {Some(s) : s \in SimValues}

\* thresholds in tenths
Thresholds == {0, 4, 5}

\* the 14 columns of a fetched row, inference.py:102-106
RowsOver(langs) ==
    [video_id : VideoIds,
     title : Titles,
     description : {"d"},
     published_at : {"2024"},
     duration : {65},
     view_count : {1500},
     like_count : {7},
     comment_count : {3},
     favorite_count : {0},
     transcription_language : langs,
     segment_start : {0},
     segment_end : {5},
     segment_text : {"t"},
     similarity : Sims]

SeqsUpTo(S, n) == UNION {[1..k -> S] : k \in 0..n}

\* ------------------------------------------------------ Python semantics
\* bool(x) of a nullable number: None and 0.0 are falsy
Truthy(x) == x # None /\ x[1] # 0

\* x or 0
OrZero(x) == IF Truthy(x) THEN x[1] ELSE 0

\* --------------------------------------------- search_similar_segments
\* variant: a null similarity defaults to pass
PassesNullDefault(r, min) == r.similarity = None \/ r.similarity[1] >= min

\* the condition of inference.py:112
Passes(r, min) == Truthy(r.similarity) /\ r.similarity[1] >= min

\* the loop of inference.py:108-113 over the fetched rows
FilterRows(rows, min) == SelectSeq(rows, LAMBDA r : Passes(r, min))

\* -------------------------------------------------- group_results_by_video
\* the video_info literal of inference.py:131-141
VideoInfo(r) ==
    [video_id |-> r.video_id,
     title |-> r.title,
     description |-> r.description,
     published_at |-> r.published_at,
     duration |-> r.duration,
     view_count |-> r.view_count,
     like_count |-> r.like_count,
     comment_count |-> r.comment_count,
     favorite_count |-> r.favorite_count]

\* index of the item with this key, 0 when absent
IndexOf(groups, vid) ==
    IF \E i \in 1..Len(groups) : groups[i].video_id = vid
    THEN CHOOSE i \in 1..Len(groups) : groups[i].video_id = vid
    ELSE 0

\* variant: a record of a video already seen is not appended
AddResultNewOnly(groups, r) ==
    LET i == IndexOf(groups, r.video_id) IN
    IF i = 0
    THEN Append(groups, [video_id |-> r.video_id,
                         video_info |-> VideoInfo(r),
                         segments |-> <<r>>])
    ELSE groups

\* variant: every record overwrites the video_info of its group
AddResultLastInfo(groups, r) ==
    LET i == IndexOf(groups, r.video_id) IN
    IF i = 0
    THEN Append(groups, [video_id |-> r.video_id,
                         video_info |-> VideoInfo(r),
                         segments |-> <<r>>])
    ELSE [groups EXCEPT ![i].segments = Append(@, r),
                        ![i].video_info = VideoInfo(r)]

\* one iteration of the loop of inference.py:127-144
AddResult(groups, r) ==
    LET i == IndexOf(groups, r.video_id) IN
    IF i = 0
    THEN Append(groups, [video_id |-> r.video_id,
                         video_info |-> VideoInfo(r),
                         segments |-> <<r>>])
    ELSE [groups EXCEPT ![i].segments = Append(@, r)]

RECURSIVE Partition(_, _)
Partition(groups, rows) ==
    IF rows = <<>> THEN groups
    ELSE Partition(AddResult(groups, Head(rows)), Tail(rows))

\* list.sort(key=..., reverse=True) and sorted(..., reverse=True): a stable
\* sort, an element goes behind every element whose key is not smaller
\* variant: an element goes in front of the elements of equal key
RECURSIVE InsertDescBeforeEqual(_, _)
InsertDescBeforeEqual(sorted, x) ==
    IF sorted = <<>> THEN <<x>>
    ELSE IF Head(sorted).key > x.key
         THEN <<Head(sorted)>> \o InsertDescBeforeEqual(Tail(sorted), x)
         ELSE <<x>> \o sorted

RECURSIVE InsertDesc(_, _)
InsertDesc(sorted, x) ==
    IF sorted = <<>> THEN <<x>>
    ELSE IF Head(sorted).key >= x.key
         THEN <<Head(sorted)>> \o InsertDesc(Tail(sorted), x)
         ELSE <<x>> \o sorted

RECURSIVE SortDescFrom(_, _)
SortDescFrom(sorted, rest) ==
    IF rest = <<>> THEN sorted
    ELSE SortDescFrom(InsertDesc(sorted, Head(rest)), Tail(rest))

\* keyed is the list with the sort key computed for every element
StableSortDesc(keyed) ==
    LET sorted == SortDescFrom(<<>>, keyed)
    IN [i \in 1..Len(keyed) |-> sorted[i].val]

\* key of inference.py:148
SegmentKey(x) == OrZero(x.similarity)

\* key of inference.py:153
GroupKey(g) == OrZero(g.segments[1].similarity)

\* variant: the segments are left in input order
SortSegmentsSkipped(groups) == groups

\* inference.py:147-148
SortSegments(groups) ==
    [i \in 1..Len(groups) |->
        [groups[i] EXCEPT !.segments =
            StableSortDesc([k \in 1..Len(@) |->
                               [key |-> SegmentKey(@[k]), val |-> @[k]]])]]

\* variant: the groups are left in first-seen order
SortVideosSkipped(groups) == groups

\* inference.py:151-157
SortVideos(groups) ==
    StableSortDesc([i \in 1..Len(groups) |->
                       [key |-> GroupKey(groups[i]), val |-> groups[i]]])

group_results_by_video(results) ==
    SortVideos(SortSegments(Partition(<<>>, results)))

\* the rows of the groups, groups in order, segments in order
RECURSIVE Flatten(_)
Flatten(groups) ==
    IF groups = <<>> THEN <<>>
    ELSE Head(groups).segments \o Flatten(Tail(groups))

\* ----------------------------------------------------------- query text
\* a text is a sequence of characters; " " is the whitespace character
Chars == {" ", "a"}

Texts == SeqsUpTo(Chars, MaxQueryLen)

RECURSIVE StripLeft(_)
StripLeft(t) ==
    IF t # <<>> /\ Head(t) = " " THEN StripLeft(Tail(t)) ELSE t

RECURSIVE StripRight(_)
StripRight(t) ==
    IF t # <<>> /\ t[Len(t)] = " "
    THEN StripRight(SubSeq(t, 1, Len(t) - 1))
    ELSE t

\* str.strip()
Strip(t) == StripRight(StripLeft(t))

\* ' '.join(args)
RECURSIVE Join(_)
Join(args) ==
    IF args = <<>> THEN <<>>
    ELSE IF Len(args) = 1 THEN Head(args)
    ELSE Head(args) \o <<" ">> \o Join(Tail(args))

\* the query of inference.py:632-635: args is sys.argv[1:], typed is the
\* line read by input()
InferenceQuery(args, typed) ==
    IF Len(args) > 0 THEN Join(args) ELSE Strip(typed)

\* ------------------------------------------------------------ presentation
\* dict.get(key): None when the key is absent
Get(d, k) == IF k \in DOMAIN d THEN d[k] ELSE None

\* streamlit_app.py:206, video_info.get("transcription_language") or "Unknown"
Language(video_info) ==
    LET v == Get(video_info, "transcription_language") IN
    IF v = None \/ v = Some("") THEN "Unknown" ELSE v[1]

\* streamlit_app.py:202
Title(video_info) ==
    IF video_info.title = "" THEN "Untitled video" ELSE video_info.title

\* the card of one group, streamlit_app.py:195-207
Card(group) ==
    [video_id |-> group.video_id,
     title |-> Title(group.video_info),
     language |-> Language(group.video_info),
     segment_count |-> Len(group.segments)]

\* str.lower() on the titles and names of the model
Lower(t) ==
    CASE t = "A" -> "a"
      [] t = "B" -> "b"
      [] t = "Any" -> "any"
      [] OTHER -> t

\* name in title.lower() or name in desc.lower(), streamlit_app.py:165-167;
\* titles and descriptions of the model are single words
Mentions(r, name) == name = Lower(r.title) \/ name = Lower(r.description)

\* the optional filter of streamlit_app.py:158-169; the main category is
\* "Speeches of politicians", the only one with sub categories
PoliticianFilter(rows, sub) ==
    IF sub # "Any"
    THEN SelectSeq(rows, LAMBDA r : Mentions(r, Lower(sub)))
    ELSE rows

\* variant: the empty result is not detected
NoResultsNever(rows) == FALSE

\* `not results`, inference.py:670 and streamlit_app.py:171
NoResults(rows) == rows = <<>>

\* ------------------------------------------------------------------ state
VARIABLES
    candidates,      \* rows fetched from the search service
    min_similarity,  \* threshold of the call, in tenths
    results,         \* results_list returned by search_similar_segments
    group_input,     \* argument of the last group_results_by_video call
    video_groups,    \* its return value
    regrouped,       \* group_results_by_video of the flattened video_groups
    pc,              \* position of the caller
    entry,           \* "call", "inference" or "streamlit"
    query,           \* the query text of the run
    sub_category,    \* the sub category selected in the dashboard
    conn,            \* "none", "open" or "closed"
    failed,          \* the step that raised, "none" when none did
    outcome,         \* what the run reported to its caller or user
    calls,           \* number of invocations of every operation
    cards,           \* the cards rendered by the dashboard
    arg,             \* argument of a formatting helper
    text,            \* the string it returned, as a sequence of characters
    fn               \* the formatting helper that was called

fnVars == <<candidates, min_similarity, results, group_input, video_groups,
            regrouped>>

mainVars == <<entry, query, sub_category, conn, failed, outcome, calls, cards>>

fmtVars == <<arg, text, fn>>

vars == <<candidates, min_similarity, results, group_input, video_groups,
          regrouped, pc, entry, query, sub_category, conn, failed, outcome,
          calls, cards, arg, text, fn>>

\* default of the min_similarity parameter, inference.py:55
DefaultMinSimilarity == 4

\* min_similarity=0.4 of inference.py:668
InferenceMinSimilarity == 4

\* values of the slider of streamlit_app.py:107-114: the default and the
\* maximum
SliderValues == {4, 9}

\* sub categories of "Speeches of politicians", streamlit_app.py:23
SubCategories == {"Any", "B"}

Operations ==
    {"load_model", "connect", "encode", "search", "group", "html", "write",
     "render", "close"}

FnRows == RowsOver({Some("en")})

\* rows a search of the mains may fetch
MainRows == {r \in FnRows : r.similarity \in {None, Some(4)}}

Called(op) == [calls EXCEPT ![op] = @ + 1]

\* ------------------------------------------ the functions called directly
Init ==
    /\ candidates \in SeqsUpTo(FnRows, MaxLen)
    /\ min_similarity = DefaultMinSimilarity
    /\ results = <<>>
    /\ group_input = <<>>
    /\ video_groups = <<>>
    /\ regrouped = <<>>
    /\ pc = "start"
    /\ arg = None
    /\ text = <<>>
    /\ fn = "none"
    /\ entry = "call"
    /\ query = <<>>
    /\ sub_category = "Any"
    /\ conn = "none"
    /\ failed = "none"
    /\ outcome = "none"
    /\ calls = [op \in Operations |-> 0]
    /\ cards = <<>>

\* search_similar_segments on the fetched rows, inference.py:108-116
SearchSimilarSegments(min) ==
    /\ pc = "start"
    /\ UNCHANGED fmtVars
    /\ min_similarity' = min
    /\ results' = FilterRows(candidates, min)
    /\ pc' = "searched"
    /\ UNCHANGED <<candidates, group_input, video_groups, regrouped>>
    /\ UNCHANGED mainVars

\* group_results_by_video on an arbitrary list, inference.py:123-157
GroupCandidates ==
    /\ pc = "start"
    /\ UNCHANGED fmtVars
    /\ group_input' = candidates
    /\ video_groups' = group_results_by_video(candidates)
    /\ pc' = "grouped"
    /\ UNCHANGED <<candidates, min_similarity, results, regrouped>>
    /\ UNCHANGED mainVars

\* group_results_by_video on the accepted list, inference.py:677
GroupResults ==
    /\ pc = "searched"
    /\ UNCHANGED fmtVars
    /\ group_input' = results
    /\ video_groups' = group_results_by_video(results)
    /\ pc' = "grouped"
    /\ UNCHANGED <<candidates, min_similarity, results, regrouped>>
    /\ UNCHANGED mainVars

\* group_results_by_video on its own flattened result
GroupAgain ==
    /\ pc = "grouped"
    /\ UNCHANGED fmtVars
    /\ regrouped' = group_results_by_video(Flatten(video_groups))
    /\ pc' = "regrouped"
    /\ UNCHANGED <<candidates, min_similarity, results, group_input,
                   video_groups>>
    /\ UNCHANGED mainVars

Next ==
    \/ \E min \in Thresholds : SearchSimilarSegments(min)
    \/ GroupCandidates
    \/ GroupResults
    \/ GroupAgain

Spec == Init /\ [][Next]_vars

\* --------------------------------------------------------- the two mains
\* inference.main (inference.py:629-704) and the search-button run of the
\* dashboard's main (streamlit_app.py:126-274), one action per step between
\* two calls that may raise.
MainInit ==
    /\ candidates = <<>>
    /\ min_similarity = DefaultMinSimilarity
    /\ results = <<>>
    /\ group_input = <<>>
    /\ video_groups = <<>>
    /\ regrouped = <<>>
    /\ pc = "main"
    /\ arg = None
    /\ text = <<>>
    /\ fn = "none"
    /\ entry \in {"inference", "streamlit"}
    /\ query = <<>>
    /\ sub_category = "Any"
    /\ conn = "none"
    /\ failed = "none"
    /\ outcome = "none"
    /\ calls = [op \in Operations |-> 0]
    /\ cards = <<>>

\* inference.py:632-639
InferenceReadQuery(args, typed) ==
    /\ pc = "main"
    /\ UNCHANGED fmtVars
    /\ entry = "inference"
    /\ query' = InferenceQuery(args, typed)
    /\ min_similarity' = InferenceMinSimilarity
    /\ IF query' = <<>>
       THEN pc' = "done" /\ outcome' = "query_rejected"
       ELSE pc' = "load_model" /\ outcome' = outcome
    /\ UNCHANGED <<candidates, results, group_input, video_groups, regrouped,
                   entry, sub_category, conn, failed, calls, cards>>

\* streamlit_app.py:103-129
StreamlitReadQuery(typed, min, sub) ==
    /\ pc = "main"
    /\ UNCHANGED fmtVars
    /\ entry = "streamlit"
    /\ query' = typed
    /\ min_similarity' = min
    /\ sub_category' = sub
    /\ IF Strip(typed) = <<>>
       THEN pc' = "done" /\ outcome' = "query_rejected"
       ELSE pc' = "load_model" /\ outcome' = outcome
    /\ UNCHANGED <<candidates, results, group_input, video_groups, regrouped,
                   entry, conn, failed, calls, cards>>

\* a failure before the try block: inference.main logs it and returns
\* (inference.py:650-652, 657-659), the dashboard lets it propagate
\* (streamlit_app.py:140-143)
FailOutside(op) ==
    /\ failed' = op
    /\ outcome' = IF entry = "inference" THEN "error_logged" ELSE "exception"
    /\ pc' = "done"

\* a failure inside the try block: inference.py:700-701 catches it, the
\* dashboard has no except clause (streamlit_app.py:145-182)
FailInside(op) ==
    /\ failed' = op
    /\ outcome' = IF entry = "inference" THEN "error_logged" ELSE "exception"
    /\ pc' = "finally"

\* SentenceTransformer(MODEL_NAME), inference.py:647-652, streamlit_app.py:140
LoadModel(ok) ==
    /\ pc = "load_model"
    /\ UNCHANGED fmtVars
    /\ calls' = Called("load_model")
    /\ IF ok
       THEN pc' = "connect" /\ UNCHANGED <<failed, outcome>>
       ELSE FailOutside("load_model")
    /\ UNCHANGED fnVars
    /\ UNCHANGED <<entry, query, sub_category, conn, cards>>

\* get_db_connection(), inference.py:655-659, streamlit_app.py:143
Connect(ok) ==
    /\ pc = "connect"
    /\ UNCHANGED fmtVars
    /\ calls' = Called("connect")
    /\ IF ok
       THEN pc' = "encode" /\ conn' = "open" /\ UNCHANGED <<failed, outcome>>
       ELSE FailOutside("connect") /\ conn' = conn
    /\ UNCHANGED fnVars
    /\ UNCHANGED <<entry, query, sub_category, cards>>

\* encode_query(model, query), inference.py:664, streamlit_app.py:147
EncodeQuery(ok) ==
    /\ pc = "encode"
    /\ UNCHANGED fmtVars
    /\ calls' = Called("encode")
    /\ IF ok
       THEN pc' = "search" /\ UNCHANGED <<failed, outcome>>
       ELSE FailInside("encode")
    /\ UNCHANGED fnVars
    /\ UNCHANGED <<entry, query, sub_category, conn, cards>>

\* search_similar_segments raises, inference.py:118-120
SearchFails ==
    /\ pc = "search"
    /\ UNCHANGED fmtVars
    /\ calls' = Called("search")
    /\ FailInside("search")
    /\ UNCHANGED fnVars
    /\ UNCHANGED <<entry, query, sub_category, conn, cards>>

\* search_similar_segments returns and the caller tests the result:
\* inference.py:668-673, streamlit_app.py:150-176
Search(rows) ==
    /\ pc = "search"
    /\ UNCHANGED fmtVars
    /\ calls' = Called("search")
    /\ candidates' = rows
    /\ results' = IF entry = "streamlit"
                  THEN PoliticianFilter(FilterRows(rows, min_similarity),
                                        sub_category)
                  ELSE FilterRows(rows, min_similarity)
    /\ IF NoResults(results')
       THEN pc' = "finally" /\ outcome' = "no_results"
       ELSE pc' = "group" /\ outcome' = outcome
    /\ UNCHANGED <<min_similarity, group_input, video_groups, regrouped,
                   entry, query, sub_category, conn, failed, cards>>

\* group_results_by_video(results) and the test of its result:
\* inference.py:677-682, streamlit_app.py:179
Group(ok) ==
    /\ pc = "group"
    /\ UNCHANGED fmtVars
    /\ calls' = Called("group")
    /\ IF ok
       THEN /\ group_input' = results
            /\ video_groups' = group_results_by_video(results)
            /\ failed' = failed
            /\ IF entry = "inference"
               THEN IF video_groups' = <<>>
                    THEN pc' = "finally" /\ outcome' = "no_video_groups"
                    ELSE pc' = "html" /\ outcome' = outcome
               ELSE pc' = "finally" /\ outcome' = outcome
       ELSE /\ FailInside("group")
            /\ UNCHANGED <<group_input, video_groups>>
    /\ UNCHANGED <<candidates, min_similarity, results, regrouped,
                   entry, query, sub_category, conn, cards>>

\* generate_html(video_groups, query), inference.py:688
GenerateHtml(ok) ==
    /\ pc = "html"
    /\ UNCHANGED fmtVars
    /\ calls' = Called("html")
    /\ IF ok
       THEN pc' = "write" /\ UNCHANGED <<failed, outcome>>
       ELSE FailInside("html")
    /\ UNCHANGED fnVars
    /\ UNCHANGED <<entry, query, sub_category, conn, cards>>

\* writing the page and reporting it, inference.py:691-698
WriteFile(ok) ==
    /\ pc = "write"
    /\ UNCHANGED fmtVars
    /\ calls' = Called("write")
    /\ IF ok
       THEN pc' = "finally" /\ outcome' = "saved" /\ failed' = failed
       ELSE FailInside("write")
    /\ UNCHANGED fnVars
    /\ UNCHANGED <<entry, query, sub_category, conn, cards>>

\* variant: the finally clause forgets the connection
FinallyWithoutClose ==
    /\ pc = "finally"
    /\ UNCHANGED fmtVars
    /\ pc' = IF entry = "streamlit" /\ outcome = "none" THEN "render" ELSE "done"
    /\ UNCHANGED fnVars
    /\ UNCHANGED <<entry, query, sub_category, conn, failed, outcome, calls,
                   cards>>

\* the finally clause, inference.py:702-704 and streamlit_app.py:181-182;
\* the dashboard goes on to display the groups when the try block completed
Finally ==
    /\ pc = "finally"
    /\ UNCHANGED fmtVars
    /\ conn' = "closed"
    /\ calls' = Called("close")
    /\ pc' = IF entry = "streamlit" /\ outcome = "none" THEN "render" ELSE "done"
    /\ UNCHANGED fnVars
    /\ UNCHANGED <<entry, query, sub_category, failed, outcome, cards>>

\* the display of the groups, streamlit_app.py:184-274
Render ==
    /\ pc = "render"
    /\ UNCHANGED fmtVars
    /\ calls' = Called("render")
    /\ cards' = [i \in 1..Len(video_groups) |-> Card(video_groups[i])]
    /\ outcome' = "rendered"
    /\ pc' = "done"
    /\ UNCHANGED fnVars
    /\ UNCHANGED <<entry, query, sub_category, conn, failed>>

MainNext ==
    \/ \E args \in SeqsUpTo(Texts, MaxArgs), typed \in Texts :
          InferenceReadQuery(args, typed)
    \/ \E typed \in Texts, min \in SliderValues, sub \in SubCategories :
          StreamlitReadQuery(typed, min, sub)
    \/ \E ok \in BOOLEAN : LoadModel(ok)
    \/ \E ok \in BOOLEAN : Connect(ok)
    \/ \E ok \in BOOLEAN : EncodeQuery(ok)
    \/ SearchFails
    \/ \E rows \in SeqsUpTo(MainRows, MaxRows) : Search(rows)
    \/ \E ok \in BOOLEAN : Group(ok)
    \/ \E ok \in BOOLEAN : GenerateHtml(ok)
    \/ \E ok \in BOOLEAN : WriteFile(ok)
    \/ Finally
    \/ Render

SpecMain == MainInit /\ [][MainNext]_vars

\* ------------------------------------------------------- claim vocabulary
Range(s) == {s[i] : i \in 1..Len(s)}

\* number of occurrences of every element of a sequence
Occurrences(s) ==
    [x \in Range(s) |-> Cardinality({i \in 1..Len(s) : s[i] = x})]

\* position of the first row of the input with this video_id
FirstIndex(rows, vid) ==
    CHOOSE i \in 1..Len(rows) :
        /\ rows[i].video_id = vid
        /\ \A j \in 1..(i - 1) : rows[j].video_id # vid

Grouped == pc \in {"grouped", "regrouped"}

Present(r) == r.similarity # None

\* C1: every record returned by search_similar_segments has a non-null
\* similarity that is at least min_similarity.
ThresholdInvariant ==
    pc # "start" =>
        \A i \in 1..Len(results) :
            /\ results[i].similarity # None
            /\ results[i].similarity[1] >= min_similarity

\* C1 witness: a search that met a null similarity and a value under the
\* threshold, and still returned something.
ThresholdWitness ==
    /\ pc = "searched"
    /\ results # <<>>
    /\ \E i \in 1..Len(candidates) : candidates[i].similarity = None
    /\ \E i \in 1..Len(candidates) :
          /\ candidates[i].similarity # None
          /\ candidates[i].similarity[1] < min_similarity

\* C2: the accepted list is exactly the subsequence of the candidates whose
\* similarity is present and at least min_similarity (0.0 under threshold
\* 0.0 included).
FilterExactness ==
    pc = "searched" =>
        results = SelectSeq(candidates,
                     LAMBDA r : Present(r) /\ r.similarity[1] >= min_similarity)

\* C3: the groups hold every input record exactly once, each in the group
\* keyed by its own video_id, one group per distinct video_id; the empty
\* input gives the empty result.
GroupingCompleteness ==
    Grouped =>
        /\ Occurrences(Flatten(video_groups)) = Occurrences(group_input)
        /\ Len(Flatten(video_groups)) = Len(group_input)
        /\ \A i \in 1..Len(video_groups) :
              /\ video_groups[i].segments # <<>>
              /\ \A k \in 1..Len(video_groups[i].segments) :
                    video_groups[i].segments[k].video_id
                        = video_groups[i].video_id
        /\ \A i, j \in 1..Len(video_groups) :
              video_groups[i].video_id = video_groups[j].video_id => i = j
        /\ {video_groups[i].video_id : i \in 1..Len(video_groups)}
              = {group_input[i].video_id : i \in 1..Len(group_input)}
        /\ (group_input = <<>> => video_groups = <<>>)

\* C3 witness: two videos interleaved in the input, one row occurring twice.
GroupingCompletenessWitness ==
    /\ pc = "grouped"
    /\ Len(group_input) = 3
    /\ Len(video_groups) = 2
    /\ group_input[1] = group_input[3]
    /\ group_input[2].video_id # group_input[1].video_id

\* one video, similarities [0.9, 0.4, 0.7], filtered under threshold 0.5
ScenarioA ==
    /\ Grouped
    /\ group_input = results
    /\ min_similarity = 5
    /\ Len(candidates) = 3
    /\ \A n \in 1..3 : candidates[n].video_id = "v1"
    /\ [n \in 1..3 |-> candidates[n].similarity] = <<Some(9), Some(4), Some(7)>>

\* C4: in every group the similarities (null as 0) are non-increasing and
\* segments of equal similarity keep their input order; [0.9, 0.4, 0.7] of
\* one video under threshold 0.5 gives [0.9, 0.7].
SegmentOrdering ==
    Grouped =>
        /\ \A g \in 1..Len(video_groups) :
              LET segs == video_groups[g].segments
                  vid == video_groups[g].video_id
              IN /\ \A i \in 1..(Len(segs) - 1) :
                        OrZero(segs[i].similarity) >= OrZero(segs[i + 1].similarity)
                 /\ \A k \in 0..9 :
                        SelectSeq(segs, LAMBDA r : OrZero(r.similarity) = k)
                          = SelectSeq(group_input,
                              LAMBDA r : r.video_id = vid
                                         /\ OrZero(r.similarity) = k)
        /\ (ScenarioA =>
              /\ Len(video_groups) = 1
              /\ [n \in 1..Len(video_groups[1].segments) |->
                     video_groups[1].segments[n].similarity]
                   = <<Some(9), Some(7)>>)

\* C4 witness: one video, input similarities null, 0.9, 0.0 with different
\* titles: the sort moved 0.9 to the front and kept null before 0.0.
SegmentOrderingWitness ==
    /\ pc = "grouped"
    /\ Len(group_input) = 3
    /\ Len(video_groups) = 1
    /\ [i \in 1..3 |-> group_input[i].similarity] = <<None, Some(9), Some(0)>>
    /\ group_input[1].title # group_input[3].title
    /\ video_groups[1].segments
          = <<group_input[2], group_input[1], group_input[3]>>

\* C5: the top-segment similarity (null as 0) of group i is at least that of
\* group i+1, and groups of equal top similarity are in the order in which
\* their video_ids first occurred in the input.
GroupOrdering ==
    Grouped =>
        \A i \in 1..(Len(video_groups) - 1) :
            /\ GroupKey(video_groups[i]) >= GroupKey(video_groups[i + 1])
            /\ GroupKey(video_groups[i]) = GroupKey(video_groups[i + 1])
                  => FirstIndex(group_input, video_groups[i].video_id)
                       < FirstIndex(group_input, video_groups[i + 1].video_id)

\* C5 witness: v1 seen first with the lower top similarity, v2 with the
\* higher one: the group order is [v2, v1].
GroupOrderingWitness ==
    /\ pc = "grouped"
    /\ Len(video_groups) = 2
    /\ group_input[1].video_id = "v1"
    /\ video_groups[1].video_id = "v2"
    /\ video_groups[2].video_id = "v1"
    /\ GroupKey(video_groups[1]) > GroupKey(video_groups[2])

\* the video-level columns named by the output record shape
VideoLevelFields ==
    {"video_id", "title", "description", "published_at", "duration",
     "view_count", "like_count", "comment_count", "favorite_count",
     "transcription_language"}

\* C6: each group's video_info equals the video-level fields of the first
\* input record carrying that video_id: it holds every video-level field
\* and each has the first record's value; later records are ignored.
MetadataConsistency ==
    Grouped =>
        \A g \in 1..Len(video_groups) :
            LET first == group_input[FirstIndex(group_input,
                                                video_groups[g].video_id)]
                info == video_groups[g].video_info
            IN /\ DOMAIN info = VideoLevelFields
               /\ \A f \in VideoLevelFields : f \in DOMAIN info /\ info[f] = first[f]

\* rows of one video_id carry the same video-level fields
SameMetadata(rows) ==
    \A i, j \in 1..Len(rows) :
        rows[i].video_id = rows[j].video_id => VideoInfo(rows[i]) = VideoInfo(rows[j])

\* C8 as stated: grouping the flattened result gives the same result set,
\* for every input list.
IdempotenceAnyInput == pc = "regrouped" => regrouped = video_groups

\* C8 amended: grouping the flattened result gives the same result set
\* when the records of one video_id carry the same video-level metadata.
Idempotence ==
    pc = "regrouped" /\ SameMetadata(group_input) => regrouped = video_groups

\* C8 witness: well-formed input of two videos whose groups were reordered
\* and whose segments were reordered, grouped a second time.
IdempotenceWitness ==
    /\ pc = "regrouped"
    /\ SameMetadata(group_input)
    /\ Len(video_groups) = 2
    /\ Flatten(video_groups) # group_input
    /\ video_groups[1].video_id # group_input[1].video_id
    /\ GroupKey(video_groups[1]) = GroupKey(video_groups[2])
         \/ Len(video_groups[1].segments) = 2

\* C7: every Video Group carries the video id, title, description, publish
\* time, duration, the four counts and the transcription language in its
\* video-level metadata, and the presentation layer reading the group's
\* transcription language obtains the value stored for that video.
OutputRecordShape ==
    pc = "done" /\ outcome = "rendered" =>
        \A g \in 1..Len(video_groups) :
            LET info == video_groups[g].video_info
                stored == video_groups[g].segments[1].transcription_language
            IN /\ VideoLevelFields \subseteq DOMAIN info
               /\ stored # None => cards[g].language = stored[1]

\* the search returned and none of its rows passes the threshold
ZeroPass ==
    /\ calls["search"] = 1
    /\ failed # "search"
    /\ FilterRows(candidates, min_similarity) = <<>>

\* C9: when zero candidates pass the threshold the run ends in the
\* "no matches" state: nothing raised, no grouping, no rendering, and the
\* outcome reported is never the one reported after a failure.
EmptyResultSoftState ==
    /\ pc # "search" /\ ZeroPass =>
          /\ outcome = "no_results"
          /\ failed = "none"
          /\ calls["group"] = 0
          /\ calls["html"] = 0
          /\ calls["write"] = 0
          /\ calls["render"] = 0
          /\ cards = <<>>
    /\ failed # "none" => outcome \in {"error_logged", "exception"}

\* C9 witness: one candidate with null similarity under threshold 0.4, the
\* run over.
EmptyResultWitness ==
    /\ pc = "done"
    /\ calls["search"] = 1
    /\ Len(candidates) = 1
    /\ candidates[1].similarity = None
    /\ min_similarity = 4
    /\ outcome = "no_results"

\* C10: a run that opened the connection closes it exactly once before it
\* ends, on every exit path; no run closes it twice or without opening it.
ResourceCleanup ==
    /\ pc = "done" /\ calls["connect"] = 1 /\ failed # "connect" =>
          calls["close"] = 1 /\ conn = "closed"
    /\ calls["close"] <= 1
    /\ calls["close"] = 1 => conn = "closed"
    /\ conn = "open" => pc \notin {"done", "render"}

\* C10 witness: a run ended by an exception of file writing, the connection
\* closed.
ResourceCleanupWitness ==
    /\ pc = "done"
    /\ failed = "write"
    /\ calls["close"] = 1
    /\ conn = "closed"

\* further exit paths of C10: the early return and the normal completions
ResourceCleanupEarlyReturn ==
    pc = "done" /\ outcome = "no_results" /\ conn = "closed" /\ entry = "streamlit"

ResourceCleanupNormal ==
    pc = "done" /\ outcome \in {"saved", "rendered"} /\ conn = "closed"

\* C11: a query that is empty or only whitespace is rejected by either
\* entry point and the Embedder is never invoked with it.
QueryValidation ==
    /\ calls["encode"] > 0 => Strip(query) # <<>>
    /\ pc = "done" /\ failed = "none" /\ Strip(query) = <<>> =>
          outcome = "query_rejected"

\* C12: a failure of the Embedder or of the search service reaches the
\* caller of the run as an exception, it is not replaced by a normal return,
\* and the failed collaborator is invoked once only.
FailurePropagation ==
    pc = "done" /\ failed \in {"encode", "search"} =>
        /\ outcome = "exception"
        /\ calls[failed] = 1

\* ------------------------------------------- rows with a malformed similarity
\* a text in the similarity column
NonNumeric == <<"str", "abc">>

\* similarities a row may carry: null, 0.4, 0.9, 1.5 and a text
FetchedSims == {None, Some(4), Some(9), Some(15), NonNumeric}

FetchedRows ==
    {[r EXCEPT !.similarity = s] :
        r \in {x \in FnRows : x.title = "A" /\ x.similarity = None},
        s \in FetchedSims}

\* the test of inference.py:112 on a non-empty text: the text is truthy and
\* `text >= float` raises TypeError
RaisesTypeError(r) == Len(r.similarity) = 2

\* inference.py:108-120: the loop over the fetched rows; an exception
\* leaves the loop, is logged and raised again
SearchRows(rows, min) ==
    IF \E i \in 1..Len(rows) : RaisesTypeError(rows[i])
    THEN [raised |-> TRUE, results |-> <<>>]
    ELSE [raised |-> FALSE, results |-> FilterRows(rows, min)]

FetchInit ==
    /\ candidates \in SeqsUpTo(FetchedRows, MaxLen)
    /\ min_similarity = DefaultMinSimilarity
    /\ results = <<>>
    /\ group_input = <<>>
    /\ video_groups = <<>>
    /\ regrouped = <<>>
    /\ pc = "start"
    /\ entry = "call"
    /\ query = <<>>
    /\ sub_category = "Any"
    /\ conn = "none"
    /\ failed = "none"
    /\ outcome = "none"
    /\ calls = [op \in Operations |-> 0]
    /\ cards = <<>>
    /\ arg = None
    /\ text = <<>>
    /\ fn = "none"

\* search_similar_segments on fetched rows that may be malformed
SearchFetched(min) ==
    /\ pc = "start"
    /\ min_similarity' = min
    /\ results' = SearchRows(candidates, min).results
    /\ failed' = IF SearchRows(candidates, min).raised THEN "search" ELSE "none"
    /\ pc' = "searched"
    /\ UNCHANGED <<candidates, group_input, video_groups, regrouped, entry,
                   query, sub_category, conn, outcome, calls, cards>>
    /\ UNCHANGED fmtVars

FetchNext == \E min \in Thresholds : SearchFetched(min)

SpecFetch == FetchInit /\ [][FetchNext]_vars

\* a number within [0, 1]
WellFormed(x) == Len(x) = 1 /\ x[1] >= 0 /\ x[1] <= 10

\* C13: a candidate with a malformed similarity (a text, or a number
\* outside [0,1]) is excluded alone; the well-formed candidates are still
\* filtered and returned, and the query is not aborted.
MalformedExcluded ==
    pc = "searched" =>
        /\ failed = "none"
        /\ results = SelectSeq(candidates,
                        LAMBDA r : WellFormed(r.similarity)
                                   /\ r.similarity[1] >= min_similarity)

\* ------------------------------------------------------ formatting helpers
\* a string is the sequence of its characters
Digit(d) == <<"0", "1", "2", "3", "4", "5", "6", "7", "8", "9">>[d + 1]

RECURSIVE NatText(_)
NatText(n) ==
    IF n < 10 THEN <<Digit(n)>>
    ELSE NatText(n \div 10) \o <<Digit(n % 10)>>

\* str(n) and the replacement field {n}
Str(n) == IF n < 0 THEN <<"-">> \o NatText(-n) ELSE NatText(n)

\* variant: the field is not padded
Pad2Unpadded(n) == Str(n)

\* the replacement field {n:02d}
Pad2(n) == IF n >= 0 /\ n < 10 THEN <<"0">> \o NatText(n) ELSE Str(n)

\* format_duration, inference.py:160-172; // and % round to the floor
format_duration(seconds) ==
    IF seconds = None THEN <<"0", ":", "0", "0">>
    ELSE LET hours == seconds[1] \div 3600
             minutes == (seconds[1] % 3600) \div 60
             secs == seconds[1] % 60
         IN IF hours > 0
            THEN Str(hours) \o <<":">> \o Pad2(minutes) \o <<":">> \o Pad2(secs)
            ELSE Str(minutes) \o <<":">> \o Pad2(secs)

\* 2^k mod 5
Pow2Mod5(k) == <<1, 2, 4, 3>>[(k % 4) + 1]

\* the binary exponent of j/20: 2^e <= j/20 < 2^(e+1)
RECURSIVE Exp2From(_, _)
Exp2From(j, e) == IF 20 * (2 ^ (e + 1)) <= j THEN Exp2From(j, e + 1) ELSE e

\* the double nearest to the decimal tie j/20 (j odd, a value x.x5): it is
\* j/20 rounded to 53 significant bits, so it lies below the tie, above it
\* or on it as the remainder of j * 2^(50-e) by 5 is 1..2, 3..4 or 0; the
\* format rounds the double itself, an exact tie to the even digit
TieRoundsUp(j) ==
    LET r == ((j % 5) * Pow2Mod5(50 - Exp2From(j, 0))) % 5
    IN IF r = 0 THEN ((j - 1) \div 2) % 2 = 1 ELSE r >= 3

\* variant: the quotient is cut after the first decimal
TenthsTruncated(n, den) == (10 * n) \div den

\* variant: the quotient is rounded up to the next decimal
TenthsCeiling(n, den) ==
    IF (10 * n) % den = 0 THEN (10 * n) \div den ELSE (10 * n) \div den + 1

\* n / den formatted with .1f, in tenths
Tenths(n, den) ==
    LET t == (10 * n) \div den
        rem == (10 * n) % den
    IN IF 2 * rem < den THEN t
       ELSE IF 2 * rem > den THEN t + 1
       ELSE IF TieRoundsUp(2 * t + 1) THEN t + 1 ELSE t

\* f"{n / den:.1f}"
OneDecimal(n, den) ==
    Str(Tenths(n, den) \div 10) \o <<".">> \o <<Digit(Tenths(n, den) % 10)>>

\* format_number, inference.py:175-184
format_number(num) ==
    IF num = None THEN <<"0">>
    ELSE IF num[1] >= 1000000 THEN OneDecimal(num[1], 1000000) \o <<"M">>
    ELSE IF num[1] >= 1000 THEN OneDecimal(num[1], 1000) \o <<"K">>
    ELSE Str(num[1])

\* arguments near which the number format changes
Points == {1000000, 1050000, 1250000, 2300000}

FormatInputs ==
    {None} \cup
    {Some(n) : n \in ((0 - MaxNegative)..MaxSeconds) \cup
                     UNION {(p - Window)..(p + Window) : p \in Points}}

FormatInit ==
    /\ candidates = <<>>
    /\ min_similarity = DefaultMinSimilarity
    /\ results = <<>>
    /\ group_input = <<>>
    /\ video_groups = <<>>
    /\ regrouped = <<>>
    /\ pc = "start"
    /\ entry = "call"
    /\ query = <<>>
    /\ sub_category = "Any"
    /\ conn = "none"
    /\ failed = "none"
    /\ outcome = "none"
    /\ calls = [op \in Operations |-> 0]
    /\ cards = <<>>
    /\ arg \in FormatInputs
    /\ text = <<>>
    /\ fn = "none"

FormatDuration ==
    /\ pc = "start"
    /\ text' = format_duration(arg)
    /\ fn' = "format_duration"
    /\ pc' = "formatted"
    /\ UNCHANGED arg
    /\ UNCHANGED fnVars
    /\ UNCHANGED mainVars

FormatNumber ==
    /\ pc = "start"
    /\ text' = format_number(arg)
    /\ fn' = "format_number"
    /\ pc' = "formatted"
    /\ UNCHANGED arg
    /\ UNCHANGED fnVars
    /\ UNCHANGED mainVars

FormatNext == FormatDuration \/ FormatNumber

SpecFormat == FormatInit /\ [][FormatNext]_vars

\* -------------------------------------------- reading a formatted string
IsDigit(c) == \E d \in 0..9 : Digit(d) = c

DigitValue(c) == CHOOSE d \in 0..9 : Digit(d) = c

IsDigits(t) == Len(t) >= 1 /\ \A i \in 1..Len(t) : IsDigit(t[i])

\* digits without a leading zero, "0" itself excepted
Unpadded(t) == IsDigits(t) /\ (Len(t) > 1 => t[1] # "0")

RECURSIVE ParseNat(_)
ParseNat(t) ==
    IF t = <<>> THEN 0
    ELSE 10 * ParseNat(SubSeq(t, 1, Len(t) - 1)) + DigitValue(t[Len(t)])

\* t reads as digits "." digit and a suffix
IsOneDecimal(t, suffix) ==
    /\ Len(t) >= 4
    /\ t[Len(t)] = suffix
    /\ IsDigit(t[Len(t) - 1])
    /\ t[Len(t) - 2] = "."
    /\ Unpadded(SubSeq(t, 1, Len(t) - 3))

\* the number printed before the suffix, in tenths
PrintedTenths(t) ==
    10 * ParseNat(SubSeq(t, 1, Len(t) - 3)) + DigitValue(t[Len(t) - 1])

\* C14: format_duration(None) is "0:00" and format_duration of every
\* negative number of seconds is "0:00".
NullOrNegativeDuration ==
    fn = "format_duration" /\ (arg = None \/ arg[1] < 0) =>
        text = <<"0", ":", "0", "0">>

\* t reads as M:SS for s seconds
ReadsMinSec(t, s) ==
    /\ Len(t) >= 4
    /\ t[Len(t) - 2] = ":"
    /\ IsDigits(SubSeq(t, Len(t) - 1, Len(t)))
    /\ ParseNat(SubSeq(t, Len(t) - 1, Len(t))) = s % 60
    /\ Unpadded(SubSeq(t, 1, Len(t) - 3))
    /\ ParseNat(SubSeq(t, 1, Len(t) - 3)) = s \div 60

\* t reads as H:MM:SS for s seconds
ReadsHourMinSec(t, s) ==
    /\ Len(t) >= 7
    /\ t[Len(t) - 2] = ":"
    /\ t[Len(t) - 5] = ":"
    /\ IsDigits(SubSeq(t, Len(t) - 1, Len(t)))
    /\ ParseNat(SubSeq(t, Len(t) - 1, Len(t))) = s % 60
    /\ IsDigits(SubSeq(t, Len(t) - 4, Len(t) - 3))
    /\ ParseNat(SubSeq(t, Len(t) - 4, Len(t) - 3)) = (s % 3600) \div 60
    /\ Unpadded(SubSeq(t, 1, Len(t) - 6))
    /\ ParseNat(SubSeq(t, 1, Len(t) - 6)) = s \div 3600

\* C15: for 0 <= s < 3600 the result is M:SS with M = s div 60 unpadded and
\* SS = s mod 60 on two digits; for s >= 3600 it is H:MM:SS with H = s div
\* 3600 unpadded; 0 gives "0:00", 65 "1:05", 3600 "1:00:00", 3661 "1:01:01".
DurationFormat ==
    fn = "format_duration" /\ arg # None /\ arg[1] >= 0 =>
        /\ arg[1] < 3600 => ReadsMinSec(text, arg[1])
        /\ arg[1] >= 3600 => ReadsHourMinSec(text, arg[1])
        /\ arg[1] = 0 => text = <<"0", ":", "0", "0">>
        /\ arg[1] = 65 => text = <<"1", ":", "0", "5">>
        /\ arg[1] = 3600 => text = <<"1", ":", "0", "0", ":", "0", "0">>
        /\ arg[1] = 3661 => text = <<"1", ":", "0", "1", ":", "0", "1">>

\* C15 witness: format_duration(3661) returned "1:01:01".
DurationFormatWitness ==
    /\ fn = "format_duration"
    /\ arg = Some(3661)
    /\ text = <<"1", ":", "0", "1", ":", "0", "1">>

\* the printed tenths are n/den rounded to one decimal
RoundedTo(t, n, den) ==
    /\ 20 * n - 2 * PrintedTenths(t) * den <= den
    /\ 2 * PrintedTenths(t) * den - 20 * n <= den

\* C16: format_number(None) is "0"; from 1,000,000 the result is n/1,000,000
\* rounded to one decimal and "M"; from 1,000 it is n/1,000 rounded to one
\* decimal and "K"; below 1,000 it is the decimal text of the integer;
\* 1500 gives "1.5K" and 2300000 gives "2.3M".
NumberTiers ==
    fn = "format_number" =>
        /\ arg = None => text = <<"0">>
        /\ arg # None /\ arg[1] >= 1000000 =>
              IsOneDecimal(text, "M") /\ RoundedTo(text, arg[1], 1000000)
        /\ arg # None /\ arg[1] >= 1000 /\ arg[1] < 1000000 =>
              IsOneDecimal(text, "K") /\ RoundedTo(text, arg[1], 1000)
        /\ arg # None /\ arg[1] >= 0 /\ arg[1] < 1000 =>
              Unpadded(text) /\ ParseNat(text) = arg[1]
        /\ arg # None /\ arg[1] < 0 =>
              /\ text[1] = "-"
              /\ Unpadded(Tail(text))
              /\ ParseNat(Tail(text)) = 0 - arg[1]
        /\ arg = Some(1500) => text = <<"1", ".", "5", "K">>
        /\ arg = Some(2300000) => text = <<"2", ".", "3", "M">>

\* C16 witness: format_number(2300000) returned "2.3M".
NumberTiersWitness ==
    /\ fn = "format_number"
    /\ arg = Some(2300000)
    /\ text = <<"2", ".", "3", "M">>

InKTier == fn = "format_number" /\ arg # None /\ arg[1] >= 1000 /\ arg[1] < 1000000

InMTier == fn = "format_number" /\ arg # None /\ arg[1] >= 1000000

\* C17 as stated: in the K tier the number printed before "K" is strictly
\* below 1000.0.
KPartBelowThousand == InKTier => PrintedTenths(text) < 10000

\* C17 amended: in the K tier the number printed before "K" is at most
\* 1000.0, and it is 1000.0 exactly from 999,950 on; the magnitude shown in
\* the K tier is at most that of "1.0M" and the one shown in the M tier is
\* at least that, so it does not decrease across the boundary.
KPartAtMostThousand ==
    /\ InKTier =>
          /\ PrintedTenths(text) <= 10000
          /\ PrintedTenths(text) = 10000 <=> arg[1] >= 999950
          /\ PrintedTenths(text) * 100 <= 1000000
    /\ InMTier => PrintedTenths(text) * 100000 >= 1000000

\* C17 witness: format_number(999950) returned "1000.0K".
KPartWitness ==
    /\ fn = "format_number"
    /\ arg = Some(999950)
    /\ text = <<"1", "0", "0", "0", ".", "0", "K">>

====
